---- MODULE Spec2Model ----
(***************************************************************************)
(* Reconciliation and publish pipeline of the password-listing scraper:    *)
(*   src/zhuaqu.py  DataProcessor (load / sort / merge / save),            *)
(*                  WebScraper.process_and_save, WebScraper.run            *)
(*   src/main.py    HTMLUpdater, ScrapingManager.run_once_and_maybe_update,*)
(*                  main, continuous_mode, __main__                        *)
(* A record is [name, password, date] for the dict keys of the source      *)
(* ('名称', '密码', '日期'); map names are written in pinyin.              *)
(***************************************************************************)
EXTENDS Integers, Sequences, FiniteSets, TLC

VARIABLES
    pc,            \* position of the single thread of control
    scraped_data,  \* batch returned by scrape_data (process_and_save argument)
    local_data,    \* result of load_local_data
    merged_data,   \* merged list returned by merge_data
    stats,         \* change report returned by merge_data
    mode,          \* "continuous" (--continuous) or "single" (main)
    max_retries,   \* Config.MAX_RETRIES, the attempt cap
    retry_count,   \* continuous_mode's retry_count
    events,        \* calls made by the loop: "attempt", its result, "sleep"
    outcome,       \* what the run logged at its end
    return_value,  \* value returned to __main__
    exit_code,     \* exit status of the process, -1 while it runs
    json_file,     \* output/mima_data.json
    html_file,     \* index.html
    bak_file,      \* index.html.bak
    before_mtime,  \* run_once_and_maybe_update's before_mtime
    data,          \* list loaded by load_json_data
    html_content,  \* document text read by update_html
    cycle_result,  \* value returned by run_once_and_maybe_update
    cycle_start,   \* the three files as they were when the cycle began
    reconciled,    \* merge_data ran in this cycle
    saved,         \* save_data returned True in this cycle
    backup_ok,     \* what create_backup returned in this cycle
    html_done,     \* update_html returned True in this cycle
    cause,         \* what the cycle logged as its reason to return False
    last_batch,    \* while recovery = "owed", the batch of the cycle that saved
    recovery       \* "owed" in a cycle begun after one that saved the store, with
                   \* no document written since, when the Extractor is to yield
                   \* the batch of that cycle again; "none" otherwise

mvars == <<scraped_data, local_data, merged_data, stats>>
loopvars == <<mode, max_retries, retry_count, events, outcome, return_value, exit_code>>
histvars == <<last_batch, recovery>>
filevars == <<json_file, html_file, bak_file>>
cyclevars == <<before_mtime, data, html_content, cycle_result, cycle_start,
               reconciled, saved, backup_ok, html_done, cause>>
vars == <<pc, mvars, loopvars, filevars, cyclevars, histvars>>

----------------------------------------------------------------------------
(* Bounds of the model                                                     *)

MaxBatch == 2      \* longest incoming batch drawn for merge_data
MaxLocal == 2      \* longest persisted list drawn for merge_data
MaxScrape == 2     \* longest batch the Extractor yields in a cycle
MaxAttempts == 3   \* largest attempt cap drawn for Config.MAX_RETRIES
MaxSort == 4       \* longest list drawn for sort_data

----------------------------------------------------------------------------
(* Records                                                                 *)

map_order == <<"LingHaoDaBa", "ChangGongXiGu", "BaKeShi", "HangTianJiDi", "ChaoXiJianYu">>

KnownNames   == {"LingHaoDaBa"}
UnknownNames == {"XinDiTu", "CeShiTu"}
ValidNames   == KnownNames \cup UnknownNames
\* <<password, date>> pairs: a password change alone, a date change alone.
Values       == {<<"111", "0101">>, <<"999", "0101">>, <<"111", "0102">>}

Rec(n, p, d) == [name |-> n, password |-> p, date |-> d]

\* extract_card_data: a card without its name element yields 'N/A'; an empty
\* paragraph yields ''.
PlaceholderRecords == {Rec("N/A", "N/A", "N/A"), Rec("", "111", "0101")}

ValidRecords == {Rec(n, v[1], v[2]) : n \in ValidNames, v \in Values}

ScrapedRecords == ValidRecords \cup PlaceholderRecords

SeqsUpTo(S, n) == UNION {[1..k -> S] : k \in 0..n}

Range(s) == {s[i] : i \in DOMAIN s}

NamesOf(s) == [i \in DOMAIN s |-> s[i].name]

UniqueNames(s) == \A i, j \in DOMAIN s : s[i].name = s[j].name => i = j

----------------------------------------------------------------------------
(* Python dict keyed by name, kept in insertion order                      *)

HasKey(d, n) == \E i \in DOMAIN d : d[i].name = n

DictGet(d, n) == d[CHOOSE i \in DOMAIN d : d[i].name = n]

\* d[item.name] = item : an existing key keeps its position.
DictSet(d, item) ==
    IF HasKey(d, item.name)
    THEN [i \in DOMAIN d |-> IF d[i].name = item.name THEN item ELSE d[i]]
    ELSE Append(d, item)

RECURSIVE DictFromList(_)
DictFromList(l) ==
    IF l = <<>> THEN <<>>
    ELSE DictSet(DictFromList(SubSeq(l, 1, Len(l) - 1)), l[Len(l)])

----------------------------------------------------------------------------
(* DataProcessor.sort_data                                                 *)

InMapOrder(n) == \E i \in DOMAIN map_order : map_order[i] = n

\* Every record given the same key.
SameKey(item) == 0

\* list.index is 0-based; a name outside the list sorts last.
get_sort_key(item) ==
    IF InMapOrder(item.name)
    THEN (CHOOSE i \in DOMAIN map_order :
             /\ map_order[i] = item.name
             /\ \A j \in 1..(i - 1) : map_order[j] # item.name) - 1
    ELSE Len(map_order)

\* Position at which sorted() places item among already placed items: after
\* every item whose key is not greater (stable).
RECURSIVE InsertByKey(_, _)
InsertByKey(sorted, item) ==
    IF sorted = <<>> THEN <<item>>
    ELSE IF get_sort_key(sorted[Len(sorted)]) <= get_sort_key(item)
         THEN Append(sorted, item)
         ELSE Append(InsertByKey(SubSeq(sorted, 1, Len(sorted) - 1), item),
                     sorted[Len(sorted)])

RECURSIVE sort_data(_)
sort_data(items) ==
    IF items = <<>> THEN <<>>
    ELSE InsertByKey(sort_data(SubSeq(items, 1, Len(items) - 1)), items[Len(items)])

----------------------------------------------------------------------------
(* DataProcessor.merge_data                                                *)

\* if not name or name == 'N/A': continue
\* No name skipped.
NoSkip(n) == FALSE

\* Only the 'N/A' placeholder skipped.
OnlyNA(n) == n = "N/A"

SkipName(n) == n = "" \/ n = "N/A"

\* date_changed or password_changed
\* A record compared by its password alone.
PasswordOnly(item, local_item) == item.password # local_item.password

NeedsUpdate(item, local_item) ==
    item.date # local_item.date \/ item.password # local_item.password

\* The merge starting from nothing instead of the persisted records.
EmptyBaseline(local_by_name) == <<>>

\* final_by_name = dict(local_by_name)
BaselineOf(local_by_name) == local_by_name

\* The dict the incoming name is looked up in: local_by_name, which the loop
\* never assigns to.
LookupDict(local_by_name, final_by_name) == local_by_name

MergeState0(local_by_name) ==
    [final_by_name |-> BaselineOf(local_by_name),
     added |-> <<>>, updated |-> <<>>, unchanged |-> <<>>]

\* One iteration of "for item in scraped_data".
MergeItem(st, item, local_by_name) ==
    IF SkipName(item.name) THEN st
    ELSE IF ~HasKey(LookupDict(local_by_name, st.final_by_name), item.name)
    THEN [st EXCEPT !.final_by_name = DictSet(@, item),
                    !.added = Append(@, item.name)]
    ELSE IF NeedsUpdate(item, DictGet(LookupDict(local_by_name, st.final_by_name), item.name))
    THEN [st EXCEPT !.final_by_name = DictSet(@, item),
                    !.updated = Append(@, item.name)]
    ELSE [st EXCEPT !.unchanged = Append(@, item.name)]

RECURSIVE MergeLoop(_, _)
MergeLoop(scraped, local_by_name) ==
    IF scraped = <<>> THEN MergeState0(local_by_name)
    ELSE MergeItem(MergeLoop(SubSeq(scraped, 1, Len(scraped) - 1), local_by_name),
                   scraped[Len(scraped)], local_by_name)

Stats(st) ==
    [added |-> st.added, updated |-> st.updated, unchanged |-> st.unchanged,
     added_count |-> Len(st.added), updated_count |-> Len(st.updated),
     unchanged_count |-> Len(st.unchanged)]

merge_data(scraped, local) ==
    LET st == MergeLoop(scraped, DictFromList(local))
    IN  [merged |-> sort_data(st.final_by_name), stats |-> Stats(st)]

NoStats == Stats(MergeState0(<<>>))

----------------------------------------------------------------------------
(* Files                                                                   *)

\* mima_data.json: missing, a JSON list, or text json.load rejects (a file
\* opened for writing and not written to the end).
JsonFile(k, d, m) == [kind |-> k, data |-> d, mtime |-> m]

\* index.html / index.html.bak: missing, a document, or a file opened for
\* writing and not written to the end.  markup tells the author's text
\* ("raw") from text serialised by BeautifulSoup ("bs4").
HtmlFile(k, mk, sec, c) == [kind |-> k, markup |-> mk, section |-> sec, cards |-> c]

NoHtml        == HtmlFile("missing", "none", FALSE, <<>>)
TruncatedHtml == HtmlFile("truncated", "none", FALSE, <<>>)

\* DataManager.get_file_mtime
get_file_mtime(f) == IF f.kind = "missing" THEN -1 ELSE f.mtime

\* st_mtime of a file written now: later than any earlier modification.
NewMtime(f) == IF f.kind = "missing" THEN 0 ELSE f.mtime + 1

\* DataProcessor.load_local_data
load_local_data(f) == IF f.kind = "list" THEN f.data ELSE <<>>

\* DataManager.load_json_data
load_json_data(f) == IF f.kind = "list" THEN f.data ELSE <<>>

\* A card whose date element repeats the password.
CardWithoutDate(item) ==
    [name |-> item.name, pass |-> item.password, date |-> item.password]

\* HTMLUpdater.build_card_element: three div elements holding str() of the
\* record's fields.
build_card_element(item) ==
    [name |-> item.name, pass |-> item.password, date |-> item.date]

\* The document update_html serialises: the section cleared, one card per item.
NewDocument(d) ==
    HtmlFile("html", "bs4", TRUE, [i \in DOMAIN d |-> build_card_element(d[i])])

\* The backup taken from the rewritten document instead of the one on disk.
BackupAfterWrite(on_disk, rewritten) == rewritten

\* create_backup: read_text of the document as it is on disk, before the
\* rewritten document is written; write_text of that text to the backup.
BackupCopy(on_disk, rewritten) == on_disk

----------------------------------------------------------------------------
(* WebScraper.process_and_save and ScrapingManager.run_once_and_maybe_update *)

\* Saving whatever the report says.
AlwaysSave(st) == TRUE

\* if stats['added_count'] > 0 or stats['updated_count'] > 0
ShouldSave(st) == st.added_count > 0 \/ st.updated_count > 0

\* Returning True whatever update_html returned.
IgnoreUpdateResult(updated) == "True"

\* if self.html_updater.update_html(data): return True  else: return False
CycleResult(updated) == IF updated THEN "True" ELSE "False"

\* Whether the document still owes the store a publish when the next cycle
\* begins: the cycle that just ended did not write the document, and it
\* saved the store or began owing itself.
StillOwed == ~html_done /\ (saved \/ recovery = "owed")

\* A cycle that starts with update_html.
PublishFirst == "html_read"

\* The first call of a cycle, after before_mtime is read: scraper.main().
CycleEntry == "scrape"

\* Locals of a cycle before it has assigned them.
BeginCycle ==
    /\ before_mtime' = get_file_mtime(json_file)
    /\ cycle_start' = [json |-> json_file, html |-> html_file, bak |-> bak_file]
    /\ scraped_data' = <<>>
    /\ local_data' = <<>>
    /\ merged_data' = <<>>
    /\ stats' = NoStats
    /\ data' = <<>>
    /\ html_content' = NoHtml
    /\ cycle_result' = "pending"
    /\ reconciled' = FALSE
    /\ saved' = FALSE
    /\ backup_ok' = "none"
    /\ html_done' = FALSE
    /\ cause' = "none"
    /\ recovery' \in (IF StillOwed THEN {"none", "owed"} ELSE {"none"})
    /\ last_batch' = IF recovery' # "owed" THEN <<>>
                     ELSE IF saved THEN scraped_data ELSE last_batch
    /\ pc' = CycleEntry

\* run_once_and_maybe_update returns False before it calls update_html.
ReturnFalse ==
    /\ cycle_result' = "False"
    /\ pc' = "cycle_return"

\* update_html returns, and run_once_and_maybe_update with it.
UpdateHtmlReturns(updated) ==
    /\ cycle_result' = CycleResult(updated)
    /\ pc' = "cycle_return"

CycleRecords ==
    {Rec("LingHaoDaBa", "111", "0101"), Rec("LingHaoDaBa", "999", "0101"),
     Rec("XinDiTu", "111", "0102"), Rec("N/A", "N/A", "N/A")}

CycleBatches == SeqsUpTo(CycleRecords, MaxScrape)

\* scraper.main() fails: scrape_data returns None (timeout, no browser, page
\* changed) or an exception reaches run / run_once_and_maybe_update.
ScrapeFails ==
    /\ pc = "scrape"
    /\ ReturnFalse
    /\ cause' = "scrape_failed"
    /\ UNCHANGED <<histvars, mvars, loopvars, filevars, before_mtime, data, html_content,
                   cycle_start, reconciled, saved, backup_ok, html_done>>

\* scrape_data returns a batch; process_and_save up to its decision to save.
ProcessAndSave ==
    /\ pc = "scrape"
    /\ \E batch \in CycleBatches :
        /\ recovery = "owed" => batch = last_batch
        /\ scraped_data' = batch
        /\ IF batch = <<>>
           THEN /\ ReturnFalse
                /\ cause' = "no_data"
                /\ UNCHANGED <<local_data, merged_data, stats, reconciled>>
           ELSE /\ local_data' = load_local_data(json_file)
                /\ LET result == merge_data(batch, load_local_data(json_file))
                   IN  merged_data' = result.merged /\ stats' = result.stats
                /\ reconciled' = TRUE
                /\ IF ShouldSave(stats')
                   THEN /\ pc' = "save_open"
                        /\ UNCHANGED <<cycle_result, cause>>
                   ELSE ReturnFalse /\ cause' = "no_change"
    /\ UNCHANGED <<loopvars, filevars, before_mtime, data, html_content,
                   cycle_start, saved, backup_ok, html_done, histvars>>

\* save_data: open(json_path, 'w') truncates the file or raises IOError.
SaveOpen ==
    /\ pc = "save_open"
    /\ \/ /\ json_file' = JsonFile("invalid", <<>>, NewMtime(json_file))
          /\ pc' = "save_dump"
          /\ UNCHANGED <<cycle_result, cause>>
       \/ /\ ReturnFalse
          /\ cause' = "save_failed"
          /\ UNCHANGED json_file
    /\ UNCHANGED <<histvars, mvars, loopvars, html_file, bak_file, before_mtime, data,
                   html_content, cycle_start, reconciled, saved, backup_ok, html_done>>

\* save_data: json.dump writes the list, or raises IOError part-way.
SaveDump ==
    /\ pc = "save_dump"
    /\ \/ /\ json_file' = JsonFile("list", merged_data, json_file.mtime)
          /\ saved' = TRUE
          /\ pc' = "check_update"
          /\ UNCHANGED <<cycle_result, cause>>
       \/ /\ ReturnFalse
          /\ cause' = "save_failed"
          /\ UNCHANGED <<json_file, saved>>
    /\ UNCHANGED <<histvars, mvars, loopvars, html_file, bak_file, before_mtime, data,
                   html_content, cycle_start, reconciled, backup_ok, html_done>>

\* run_once_and_maybe_update after scraper.main() returned True.
CheckUpdate ==
    /\ pc = "check_update"
    /\ IF get_file_mtime(json_file) <= before_mtime
       THEN ReturnFalse /\ cause' = "not_updated" /\ UNCHANGED data
       ELSE /\ data' = load_json_data(json_file)
            /\ IF data' = <<>>
               THEN ReturnFalse /\ cause' = "empty_json"
               ELSE pc' = "html_read" /\ UNCHANGED <<cycle_result, cause>>
    /\ UNCHANGED <<histvars, mvars, loopvars, filevars, before_mtime, html_content,
                   cycle_start, reconciled, saved, backup_ok, html_done>>

\* Taking the listing region to be there whatever the document holds.
AssumeSection(document) == TRUE

\* soup.find("section", class_="list") is not None
FindSection(document) == document.section

\* update_html: read the document and find <section class="list">.
HtmlRead ==
    /\ pc = "html_read"
    /\ IF html_file.kind = "missing"
       THEN UpdateHtmlReturns(FALSE) /\ cause' = "html_unreadable"
                                     /\ UNCHANGED html_content
       ELSE /\ html_content' = html_file
            /\ IF FindSection(html_file)
               THEN pc' = "backup" /\ UNCHANGED <<cycle_result, cause>>
               ELSE UpdateHtmlReturns(FALSE) /\ cause' = "no_section"
    /\ UNCHANGED <<histvars, mvars, loopvars, filevars, before_mtime, data,
                   cycle_start, reconciled, saved, backup_ok, html_done>>

\* update_html giving up when the backup could not be made.
AbortOnBackupFailure(backed_up) == IF backed_up THEN "html_open" ELSE "cycle_return"

\* self.create_backup() is called as a statement: update_html goes on to
\* rebuild the section whatever it returned.
AfterBackup(backed_up) == "html_open"

\* create_backup: copies the document, or fails with IOError before or while
\* writing the backup; update_html ignores what it returns.
CreateBackup ==
    /\ pc = "backup"
    /\ \/ /\ bak_file' = BackupCopy(html_file, NewDocument(data))
          /\ backup_ok' = "True"
       \/ /\ bak_file' \in {bak_file, TruncatedHtml}
          /\ backup_ok' = "False"
    /\ pc' = AfterBackup(backup_ok' = "True")
    /\ UNCHANGED <<histvars, mvars, loopvars, json_file, html_file, before_mtime, data,
                   html_content, cycle_result, cycle_start, reconciled, saved, html_done,
                   cause>>

\* update_html: open(HTML_PATH, 'w') truncates the document or raises.
HtmlOpen ==
    /\ pc = "html_open"
    /\ \/ /\ html_file' = TruncatedHtml
          /\ pc' = "html_write"
          /\ UNCHANGED <<cycle_result, cause>>
       \/ /\ UpdateHtmlReturns(FALSE)
          /\ cause' = "html_write_failed"
          /\ UNCHANGED html_file
    /\ UNCHANGED <<histvars, mvars, loopvars, json_file, bak_file, before_mtime, data,
                   html_content, cycle_start, reconciled, saved, backup_ok, html_done>>

\* update_html: f.write(str(soup)) completes, or raises part-way.
HtmlWrite ==
    /\ pc = "html_write"
    /\ \/ /\ html_file' = NewDocument(data)
          /\ html_done' = TRUE
          /\ UpdateHtmlReturns(TRUE)
          /\ UNCHANGED cause
       \/ /\ UpdateHtmlReturns(FALSE)
          /\ cause' = "html_write_failed"
          /\ UNCHANGED <<html_file, html_done>>
    /\ UNCHANGED <<histvars, mvars, loopvars, json_file, bak_file, before_mtime, data,
                   html_content, cycle_start, reconciled, saved, backup_ok>>

----------------------------------------------------------------------------
(* continuous_mode, main and __main__                                      *)

\* Sleeping after every failed attempt, the last one included.
AlwaysSleep(count, cap) == TRUE

\* if retry_count < config.MAX_RETRIES: time.sleep(...)
SleepGuard(count, cap) == count < cap

\* The loop going on after a successful cycle.
ContinueLoop == "loop_test"

\* break leaves the while loop and skips its else clause.
AfterBreak == "return"

\* while retry_count < config.MAX_RETRIES: retry_count += 1; the call of
\* run_once_and_maybe_update begins.
LoopAttempt ==
    /\ pc = "loop_test"
    /\ retry_count < max_retries
    /\ retry_count' = retry_count + 1
    /\ events' = Append(events, "attempt")
    /\ BeginCycle
    /\ UNCHANGED <<mode, max_retries, outcome, return_value, exit_code, filevars>>

\* The loop condition fails: the else clause of the while loop logs that the
\* cap was reached, and continuous_mode returns (None).
LoopExhausted ==
    /\ pc = "loop_test"
    /\ ~(retry_count < max_retries)
    /\ outcome' = "Exhausted"
    /\ return_value' = "None"
    /\ pc' = "return"
    /\ UNCHANGED <<histvars, mode, max_retries, retry_count, events, exit_code,
                   mvars, filevars, cyclevars>>

\* if scraping_manager.run_once_and_maybe_update(): break
LoopBreak ==
    /\ pc = "cycle_return"
    /\ mode = "continuous"
    /\ cycle_result = "True"
    /\ events' = Append(events, cycle_result)
    /\ outcome' = "Success"
    /\ pc' = AfterBreak
    /\ return_value' = "None"
    /\ UNCHANGED <<histvars, mode, max_retries, retry_count, exit_code,
                   mvars, filevars, cyclevars>>

\* The loop given up at the first cycle that returns False.
StopOnFailure == "return"

\* A cycle that returned False falls through to the loop condition.
AfterFalse == "loop_test"

\* The cycle returned False: sleep when attempts remain, then test again.
LoopRetry ==
    /\ pc = "cycle_return"
    /\ mode = "continuous"
    /\ cycle_result = "False"
    /\ events' = IF SleepGuard(retry_count, max_retries)
                 THEN events \o <<cycle_result, "sleep">>
                 ELSE Append(events, cycle_result)
    /\ pc' = AfterFalse
    /\ UNCHANGED <<histvars, mode, max_retries, retry_count, outcome, return_value, exit_code,
                   mvars, filevars, cyclevars>>

\* main(): one call of run_once_and_maybe_update.
MainStart ==
    /\ pc = "main"
    /\ events' = Append(events, "attempt")
    /\ BeginCycle
    /\ UNCHANGED <<mode, max_retries, retry_count, outcome, return_value,
                   exit_code, filevars>>

\* main(): logs and returns what the cycle returned.
MainReturn ==
    /\ pc = "cycle_return"
    /\ mode = "single"
    /\ events' = Append(events, cycle_result)
    /\ outcome' = IF cycle_result = "True" THEN "MainSuccess" ELSE "MainFailure"
    /\ return_value' = cycle_result
    /\ pc' = "return"
    /\ UNCHANGED <<histvars, mode, max_retries, retry_count, exit_code,
                   mvars, filevars, cyclevars>>

\* __main__ calls continuous_mode() or main() as a statement and the script
\* ends: the interpreter exits with status 0.
ExitStatus(returned) == 0

Exit ==
    /\ pc = "return"
    /\ exit_code' = ExitStatus(return_value)
    /\ pc' = "exited"
    /\ UNCHANGED <<histvars, mode, max_retries, retry_count, events, outcome, return_value,
                   mvars, filevars, cyclevars>>

----------------------------------------------------------------------------
(* Specification Spec: the program started on the files it finds           *)

StoredLists ==
    {<<>>,
     <<Rec("LingHaoDaBa", "111", "0101")>>,
     <<Rec("LingHaoDaBa", "111", "0101"), Rec("CeShiTu", "999", "0101")>>}

InitialStores ==
    {JsonFile("missing", <<>>, -1), JsonFile("invalid", <<>>, 0)}
        \cup {JsonFile("list", d, 0) : d \in StoredLists}

InitialDocuments ==
    {NoHtml,
     HtmlFile("html", "raw", FALSE, <<>>),
     HtmlFile("html", "raw", TRUE, <<>>),
     HtmlFile("html", "bs4", TRUE, NewDocument(<<Rec("LingHaoDaBa", "111", "0101")>>).cards)}

InitialBackups == {NoHtml, HtmlFile("html", "raw", TRUE, <<>>)}

Init ==
    /\ mode \in {"single", "continuous"}
    /\ max_retries \in 1..MaxAttempts
    /\ mode = "single" => max_retries = 1
    /\ pc = IF mode = "single" THEN "main" ELSE "loop_test"
    /\ retry_count = 0
    /\ events = <<>>
    /\ outcome = "none"
    /\ return_value = "none"
    /\ exit_code = -1
    /\ json_file \in InitialStores
    /\ html_file \in InitialDocuments
    /\ bak_file \in InitialBackups
    /\ scraped_data = <<>>
    /\ local_data = <<>>
    /\ merged_data = <<>>
    /\ stats = NoStats
    /\ before_mtime = -1
    /\ data = <<>>
    /\ html_content = NoHtml
    /\ cycle_result = "pending"
    /\ cycle_start = [json |-> json_file, html |-> html_file, bak |-> bak_file]
    /\ reconciled = FALSE
    /\ saved = FALSE
    /\ backup_ok = "none"
    /\ html_done = FALSE
    /\ cause = "none"
    /\ last_batch = <<>>
    /\ recovery = "none"

Next ==
    \/ LoopAttempt
    \/ LoopExhausted
    \/ LoopBreak
    \/ LoopRetry
    \/ MainStart
    \/ MainReturn
    \/ Exit
    \/ ScrapeFails
    \/ ProcessAndSave
    \/ SaveOpen
    \/ SaveDump
    \/ CheckUpdate
    \/ HtmlRead
    \/ CreateBackup
    \/ HtmlOpen
    \/ HtmlWrite

Spec == Init /\ [][Next]_vars

----------------------------------------------------------------------------
(* Specification SpecMerge: merge_data applied to drawn inputs, then       *)
(* applied again to the same batch and its own result (two consecutive     *)
(* cycles in which the Extractor yields the same batch).                   *)

Batches  == SeqsUpTo(ScrapedRecords, MaxBatch)

\* What save_data persists: a merge_data result, so unique names in sort_data
\* order (names outside map_order in either relative order).
Datasets == {s \in SeqsUpTo(ValidRecords, MaxLocal) : UniqueNames(s) /\ sort_data(s) = s}

InitMerge ==
    /\ pc = "merge_start"
    /\ scraped_data \in Batches
    /\ local_data \in Datasets
    /\ merged_data = <<>>
    /\ stats = NoStats
    /\ mode = "single"
    /\ max_retries = 1
    /\ retry_count = 0
    /\ events = <<>>
    /\ outcome = "none"
    /\ return_value = "none"
    /\ exit_code = -1
    /\ json_file = JsonFile("list", local_data, 0)
    /\ html_file = NoHtml
    /\ bak_file = NoHtml
    /\ before_mtime = -1
    /\ data = <<>>
    /\ html_content = NoHtml
    /\ cycle_result = "pending"
    /\ cycle_start = [json |-> json_file, html |-> html_file, bak |-> bak_file]
    /\ reconciled = FALSE
    /\ saved = FALSE
    /\ backup_ok = "none"
    /\ html_done = FALSE
    /\ cause = "none"
    /\ last_batch = <<>>
    /\ recovery = "none"

MergeFirst ==
    /\ pc = "merge_start"
    /\ merged_data' = merge_data(scraped_data, local_data).merged
    /\ stats' = merge_data(scraped_data, local_data).stats
    /\ pc' = "merged"
    /\ UNCHANGED <<histvars, scraped_data, local_data, loopvars, filevars, cyclevars>>

MergeAgain ==
    /\ pc = "merged"
    /\ local_data' = merged_data
    /\ merged_data' = merge_data(scraped_data, merged_data).merged
    /\ stats' = merge_data(scraped_data, merged_data).stats
    /\ pc' = "remerged"
    /\ UNCHANGED <<histvars, scraped_data, loopvars, filevars, cyclevars>>

NextMerge == MergeFirst \/ MergeAgain

SpecMerge == InitMerge /\ [][NextMerge]_vars

----------------------------------------------------------------------------
(* Specification SpecSort: sort_data applied to drawn lists                *)

\* Names of map_order (listed here out of its order) and names outside it.
SortNames == {"ChaoXiJianYu", "LingHaoDaBa", "BaKeShi", "XinDiTu", "CeShiTu"}

\* What merge_data passes to sort_data: [final_by_name[k] for k in
\* final_by_name.keys()], one record per name, in the dict's insertion order.
SortInputs ==
    {s \in SeqsUpTo({Rec(n, "111", "0101") : n \in SortNames}, MaxSort) : UniqueNames(s)}

\* data is sort_data's parameter, merged_data receives what it returns.
InitSort ==
    /\ pc = "sort_start"
    /\ data \in SortInputs
    /\ scraped_data = <<>>
    /\ local_data = <<>>
    /\ merged_data = <<>>
    /\ stats = NoStats
    /\ mode = "single"
    /\ max_retries = 1
    /\ retry_count = 0
    /\ events = <<>>
    /\ outcome = "none"
    /\ return_value = "none"
    /\ exit_code = -1
    /\ json_file = JsonFile("missing", <<>>, -1)
    /\ html_file = NoHtml
    /\ bak_file = NoHtml
    /\ before_mtime = -1
    /\ html_content = NoHtml
    /\ cycle_result = "pending"
    /\ cycle_start = [json |-> json_file, html |-> html_file, bak |-> bak_file]
    /\ reconciled = FALSE
    /\ saved = FALSE
    /\ backup_ok = "none"
    /\ html_done = FALSE
    /\ cause = "none"
    /\ last_batch = <<>>
    /\ recovery = "none"

\* merged_list = self.sort_data([...]): sorted(data, key=get_sort_key)
SortStep ==
    /\ pc = "sort_start"
    /\ merged_data' = sort_data(data)
    /\ pc' = "sorted"
    /\ UNCHANGED <<histvars, scraped_data, local_data, stats, loopvars, filevars,
                   before_mtime, data, html_content, cycle_result, cycle_start,
                   reconciled, saved, backup_ok, html_done, cause>>

NextSort == SortStep

SpecSort == InitSort /\ [][NextSort]_vars

----------------------------------------------------------------------------
(* Claims about merge_data, checked under SpecMerge                        *)

Reported(st) == st.added \o st.updated \o st.unchanged

Occurrences(seq, x) == Cardinality({i \in DOMAIN seq : seq[i] = x})

PermsOf(s) == {[i \in DOMAIN s |-> s[f[i]]] : f \in Permutations(DOMAIN s)}

\* C1: applying merge_data a second time to the same batch and to its own
\* merged result returns that merged list again and reports nothing added
\* and nothing updated, for every batch (repeated names included).
C1_Idempotent ==
    pc = "remerged" =>
        /\ merged_data = local_data
        /\ stats.added = <<>>
        /\ stats.updated = <<>>

\* C2: every persisted record whose name does not occur in the batch is in
\* the merged list with the password and date it had, and no persisted name
\* is missing from the merged list.
C2_Supersetting ==
    pc \in {"merged", "remerged"} =>
        \A i \in DOMAIN local_data :
            /\ HasKey(merged_data, local_data[i].name)
            /\ ~HasKey(scraped_data, local_data[i].name)
                   => DictGet(merged_data, local_data[i].name) = local_data[i]

C2_Witness ==
    /\ pc = "merged"
    /\ stats.added_count > 0
    /\ stats.updated_count > 0
    /\ \E i \in DOMAIN local_data : ~HasKey(scraped_data, local_data[i].name)

\* C3: every valid name of the batch is listed once, in one of added,
\* updated and unchanged.
C3_ClassifiedOnce ==
    pc \in {"merged", "remerged"} =>
        \A i \in DOMAIN scraped_data :
            ~SkipName(scraped_data[i].name)
                => Occurrences(Reported(stats), scraped_data[i].name) = 1

\* C4: the names of the merged list come in the same order whatever the
\* order of the batch and of the persisted list.
C4_OrderDeterminism ==
    pc = "merged" =>
        \A X \in PermsOf(scraped_data), P \in PermsOf(local_data) :
            NamesOf(merge_data(X, P).merged) = NamesOf(merged_data)

----------------------------------------------------------------------------
(* Claims about the cycle and the retry loop, checked under Spec           *)

NoChange(st) == st.added_count + st.updated_count = 0

\* C5: a cycle whose report has nothing added and nothing updated leaves
\* mima_data.json, index.html and the backup as they were when the cycle
\* began, and returns False.
C5_NoOpSkip ==
    (reconciled /\ NoChange(stats)) =>
        /\ json_file = cycle_start.json
        /\ html_file = cycle_start.html
        /\ bak_file = cycle_start.bak
        /\ cycle_result = "False"

C5_Witness ==
    /\ pc = "cycle_return"
    /\ reconciled
    /\ NoChange(stats)
    /\ stats.unchanged_count > 0
    /\ json_file.kind = "list"
    /\ html_file.section

\* C6 as claimed: whenever update_html has returned True, the backup holds
\* the document as it was read before the write.
C6_BackupAfterEveryPublish ==
    html_done => bak_file = html_content

\* C6 amended: whenever update_html has returned True and its create_backup
\* call returned True, the backup holds the document as it was before the
\* write (the document the cycle found).
C6_BackupWhenBackupSucceeded ==
    (html_done /\ backup_ok = "True") =>
        /\ bak_file = html_content
        /\ bak_file = cycle_start.html

C6_Witness ==
    /\ html_done
    /\ backup_ok = "True"
    /\ bak_file # cycle_start.bak
    /\ bak_file # html_file
    /\ Len(bak_file.cards) > 0
    /\ retry_count > 1

\* The calls of a loop of n attempts that all return False.
ExhaustedTrace(n) ==
    [i \in 1..(3 * n - 1) |->
        IF i % 3 = 1 THEN "attempt" ELSE IF i % 3 = 2 THEN "False" ELSE "sleep"]

\* C7: a continuous run in which no cycle returned True has, when it ends,
\* made max_retries attempts with one sleep between each two consecutive
\* attempts and none after the last, and has logged exhaustion.
C7_ExhaustionPath ==
    (mode = "continuous" /\ pc \in {"return", "exited"}
        /\ Occurrences(events, "True") = 0) =>
        /\ events = ExhaustedTrace(max_retries)
        /\ Occurrences(events, "attempt") = max_retries
        /\ Occurrences(events, "sleep") = max_retries - 1
        /\ outcome = "Exhausted"

C7_Witness ==
    /\ pc = "exited"
    /\ mode = "continuous"
    /\ max_retries = 3
    /\ outcome = "Exhausted"
    /\ Occurrences(events, "attempt") = 3
    /\ Occurrences(events, "sleep") = 2
    /\ events[Len(events)] = "False"

\* C8: in continuous mode a cycle that returns True is the last call the
\* loop makes (no attempt and no sleep follows it), the run ends in Success
\* and exhaustion is not logged, also when that cycle was the last allowed.
C8_StopOnFirstSuccess ==
    mode = "continuous" =>
        /\ \A i \in DOMAIN events : events[i] = "True" => i = Len(events)
        /\ Occurrences(events, "True") > 0
              => (outcome = "Success" /\ pc \in {"return", "exited"})
        /\ outcome = "Exhausted" => Occurrences(events, "True") = 0

C8_Witness ==
    /\ pc = "exited"
    /\ mode = "continuous"
    /\ outcome = "Success"
    /\ max_retries > 1
    /\ retry_count = max_retries
    /\ events[Len(events)] = "True"

\* C9: a run that ended by exhausting its attempts gives its caller a
\* failure signal: a non-zero exit status or a False return value.
C9_ExhaustionSurfaced ==
    (pc = "exited" /\ outcome = "Exhausted") =>
        (exit_code # 0 \/ return_value = "False")

\* C10: a cycle returns True only if save_data and update_html both
\* completed in that cycle (the store holds the merged list, the document
\* its cards); a cycle in which either did not, returns False.
C10_TrueOnlyIfBothWritten ==
    /\ cycle_result = "True" =>
          /\ saved
          /\ html_done
          /\ json_file.kind = "list" /\ json_file.data = merged_data
          /\ json_file # cycle_start.json
          /\ html_file = NewDocument(merged_data)
    /\ (pc = "cycle_return" /\ ~(saved /\ html_done)) => cycle_result = "False"

C10_Witness ==
    /\ pc = "cycle_return"
    /\ cycle_result = "True"
    /\ saved
    /\ html_done
    /\ cycle_start.json.kind = "list"

----------------------------------------------------------------------------
(* Claims about the published document, checked under Spec                 *)

\* C11: when a cycle has returned True the listing region of the document
\* holds one card per record of the persisted list, in the list's order,
\* each with that record's name, password and date.
C11_DocumentInSync ==
    cycle_result = "True" =>
        /\ json_file.kind = "list"
        /\ html_file.kind = "html" /\ html_file.section
        /\ Len(html_file.cards) = Len(json_file.data)
        /\ \A i \in DOMAIN json_file.data :
              /\ html_file.cards[i].name = json_file.data[i].name
              /\ html_file.cards[i].pass = json_file.data[i].password
              /\ html_file.cards[i].date = json_file.data[i].date

C11_Witness ==
    /\ cycle_result = "True"
    /\ retry_count > 1
    /\ Len(json_file.data) > 1
    /\ Len(cycle_start.html.cards) > 0
    /\ \E i \in DOMAIN json_file.data : json_file.data[i].date # json_file.data[i].password

\* C12: when a cycle saved the store and did not write the document, and a
\* later cycle ends the run, the Extractor having yielded the same batch in
\* every cycle since, and that last cycle having found the document with
\* its listing region and met no failure, then that last cycle returned True
\* with the document in sync with the store.
C12_RecoversThroughRetry ==
    (pc \in {"return", "exited"}
        /\ recovery = "owed"
        /\ cycle_start.html.kind = "html" /\ cycle_start.html.section
        /\ cause \in {"none", "no_change"}) =>
        /\ cycle_result = "True"
        /\ html_file = NewDocument(json_file.data)

\* C13: at every instant the document is either what it was when the cycle
\* began or the completely rewritten document.
C13_AtomicDocumentWrite ==
    \/ html_file = cycle_start.html
    \/ html_file = NewDocument(data)

\* update_html was called in this cycle and read a document without a
\* listing region.
ReadWithoutSection == html_content.kind # "missing" /\ ~html_content.section

\* C14: when the document update_html reads has no listing region, it goes
\* no further (no backup, no write), the cycle returns False and the
\* document is what it was.
C14_StructuralError ==
    ReadWithoutSection =>
        /\ pc \in {"cycle_return", "loop_test", "return", "exited"}
        /\ cycle_result = "False"
        /\ ~html_done
        /\ html_file = html_content
        /\ html_file = cycle_start.html

C14_Witness ==
    /\ pc = "cycle_return"
    /\ ReadWithoutSection
    /\ html_file.kind = "html"
    /\ saved
    /\ cause = "no_section"

\* C15: when update_html has returned from a call that found the document
\* (and whose backup did not fail with an I/O error), the backup holds the
\* document as that call read it, also when the call failed for want of a
\* listing region.
C15_BackupOnEveryAttempt ==
    (pc = "cycle_return" /\ html_content.kind # "missing" /\ backup_ok # "False") =>
        bak_file = html_content

\* C16: when create_backup has failed, update_html still rewrites the
\* document and returns True, unless the write of the document itself fails.
C16_BackupFailureNonFatal ==
    (backup_ok = "False" /\ pc \in {"cycle_return", "loop_test", "return", "exited"}
        /\ cause # "html_write_failed") =>
        /\ cycle_result = "True"
        /\ html_done
        /\ html_file = NewDocument(data)

C16_Witness ==
    /\ pc = "cycle_return"
    /\ backup_ok = "False"
    /\ cycle_result = "True"
    /\ bak_file # html_content
    /\ html_file = NewDocument(json_file.data)

----------------------------------------------------------------------------
(* Claims about names, checked under Spec and SpecMerge                    *)

Sentinel(n) == n = "" \/ n = "N/A"

\* C17: every record of the store has a name that is neither empty nor
\* 'N/A', and no two records of the store share a name.
C17_UniqueNamesInStore ==
    json_file.kind = "list" =>
        /\ \A i \in DOMAIN json_file.data : ~Sentinel(json_file.data[i].name)
        /\ \A i, j \in DOMAIN json_file.data :
              json_file.data[i].name = json_file.data[j].name => i = j

C17_Witness ==
    /\ pc = "check_update"
    /\ saved
    /\ retry_count > 1
    /\ Len(cycle_start.json.data) > 0
    /\ Len(json_file.data) > 1
    /\ \E i, j \in DOMAIN scraped_data :
          i # j /\ scraped_data[i].name = scraped_data[j].name

\* The batch without the records whose name is empty or 'N/A'.
WithoutSentinels(X) == SelectSeq(X, LAMBDA r : ~Sentinel(r.name))

\* C18: merge_data gives for a batch what it gives for the batch without the
\* records whose name is empty or 'N/A', and no such name is in the merged
\* list or in the report.
C18_SentinelSkipping ==
    pc = "merged" =>
        /\ merge_data(WithoutSentinels(scraped_data), local_data)
              = [merged |-> merged_data, stats |-> stats]
        /\ \A i \in DOMAIN merged_data : ~Sentinel(merged_data[i].name)
        /\ \A n \in Range(Reported(stats)) : ~Sentinel(n)

C18_Witness ==
    /\ pc = "merged"
    /\ \E i \in DOMAIN scraped_data : Sentinel(scraped_data[i].name)
    /\ Len(stats.added) > 0
    /\ Len(local_data) > 0

\* scraper.main() returned False or raised: the page could not be scraped,
\* or process_and_save returned False.
ExtractorFailed == cause \in {"scrape_failed", "no_data", "no_change", "save_failed"}

\* C19: in and after a cycle in which the Extractor failed, until the next
\* cycle begins, the cycle's result is False and the document and the backup
\* are what they were when the cycle began; in continuous mode the cycle was
\* counted as one attempt, a sleep follows it while attempts remain, and the
\* loop does not end before the cap is reached.
C19_ExtractionFailure ==
    ExtractorFailed =>
        /\ pc \in {"cycle_return", "loop_test", "return", "exited"}
        /\ cycle_result = "False"
        /\ html_file = cycle_start.html
        /\ bak_file = cycle_start.bak
        /\ cause = "scrape_failed" => json_file = cycle_start.json
        /\ mode = "continuous" =>
              /\ Occurrences(events, "attempt") = retry_count
              /\ retry_count <= max_retries
              /\ (pc = "loop_test" /\ retry_count < max_retries) =>
                    /\ events[Len(events)] = "sleep"
                    /\ events[Len(events) - 1] = "False"
              /\ pc \in {"return", "exited"} =>
                    retry_count = max_retries /\ outcome = "Exhausted"

C19_Witness ==
    /\ pc = "loop_test"
    /\ mode = "continuous"
    /\ cause = "scrape_failed"
    /\ retry_count = 2
    /\ max_retries = 3
    /\ json_file.kind = "list"
    /\ html_file.kind = "html"

\* The records of a batch that merge_data does not skip have distinct names.
DistinctNames(X) == UniqueNames(WithoutSentinels(X))

\* The persisted record of a name.
Persisted(P, n) == {P[j] : j \in {k \in DOMAIN P : P[k].name = n}}

\* C20: for a batch whose valid names are distinct, a name absent from the
\* persisted list is reported added, once and nowhere else, and merged holds
\* the incoming record; a persisted name whose password or date differs is
\* reported updated and merged holds the incoming record; a persisted name
\* with the same password and date is reported unchanged and merged holds the
\* persisted record.  With an empty persisted list every valid record is
\* added; an empty batch gives an empty report and the persisted list sorted.
C20_ClassificationRule ==
    (pc = "merged" /\ DistinctNames(scraped_data)) =>
        /\ \A i \in DOMAIN scraped_data :
              LET item == scraped_data[i]
                  n == item.name
                  old == Persisted(local_data, n)
                  In(list) == Occurrences(list, n)
              IN  ~Sentinel(n) =>
                    /\ old = {} =>
                          /\ In(stats.added) = 1 /\ In(stats.updated) = 0
                          /\ In(stats.unchanged) = 0
                          /\ item \in Range(merged_data)
                    /\ \A p \in old :
                          IF p.password # item.password \/ p.date # item.date
                          THEN /\ In(stats.added) = 0 /\ In(stats.updated) = 1
                               /\ In(stats.unchanged) = 0
                               /\ item \in Range(merged_data)
                               /\ p \notin Range(merged_data)
                          ELSE /\ In(stats.added) = 0 /\ In(stats.updated) = 0
                               /\ In(stats.unchanged) = 1
                               /\ p \in Range(merged_data)
        /\ stats.added_count = Len(stats.added)
        /\ stats.updated_count = Len(stats.updated)
        /\ stats.unchanged_count = Len(stats.unchanged)
        /\ local_data = <<>> =>
              /\ stats.added = NamesOf(WithoutSentinels(scraped_data))
              /\ stats.updated = <<>> /\ stats.unchanged = <<>>
        /\ scraped_data = <<>> =>
              /\ Reported(stats) = <<>>
              /\ merged_data = sort_data(local_data)

C20_Witness ==
    /\ pc = "merged"
    /\ Len(local_data) = 1
    /\ Len(scraped_data) = 2
    /\ Len(stats.added) = 1
    /\ Len(stats.unchanged) = 1
    /\ Len(merged_data) = 2

----------------------------------------------------------------------------
(* Claim about the order of writes in a cycle, checked under Spec          *)

\* update_html has got as far as create_backup in this cycle, or the document
\* or the backup is no longer what it was when the cycle began.
PublishBegun ==
    \/ pc \in {"backup", "html_open", "html_write"}
    \/ backup_ok # "none"
    \/ html_file # cycle_start.html
    \/ bak_file # cycle_start.bak

\* C22: a cycle touches the document or the backup only after save_data has
\* rewritten the store in that same cycle: the store then holds the merged
\* list of this cycle, is newer than when the cycle began, and is the list
\* update_html was given.
C22_StoreBeforeDocument ==
    PublishBegun =>
        /\ saved
        /\ json_file.kind = "list"
        /\ json_file.data = merged_data
        /\ get_file_mtime(json_file) > get_file_mtime(cycle_start.json)
        /\ data = json_file.data

C22_Witness ==
    /\ pc = "cycle_return"
    /\ retry_count > 1
    /\ cycle_start.json.kind = "list"
    /\ Len(cycle_start.json.data) > 0
    /\ saved
    /\ html_done
    /\ html_file # cycle_start.html
    /\ bak_file # cycle_start.bak

----------------------------------------------------------------------------
(* Claim about sort_data, checked under SpecSort                           *)

\* The place of a name in the priority list (1-based), for a name in it.
PriorityIndex(n) == CHOOSE k \in DOMAIN map_order : map_order[k] = n

Listed(n) == n \in Range(map_order)

\* The place of a record in a list that holds it once.
PlaceIn(list, r) == CHOOSE k \in DOMAIN list : list[k] = r

\* C21: what sort_data returns is a permutation of its input; in it every
\* record with a name in map_order precedes every record with a name outside
\* it, the records with names in map_order are in increasing map_order index,
\* and the records with names outside it are in the order the input had them.
C21_PrioritySort ==
    pc = "sorted" =>
        /\ Len(merged_data) = Len(data)
        /\ \A r \in Range(data) \cup Range(merged_data) :
              Occurrences(merged_data, r) = Occurrences(data, r)
        /\ \A i, j \in DOMAIN merged_data :
              i < j =>
                LET a == merged_data[i]
                    b == merged_data[j]
                IN  /\ Listed(b.name) => Listed(a.name)
                    /\ (Listed(a.name) /\ Listed(b.name)) =>
                          PriorityIndex(a.name) < PriorityIndex(b.name)
                    /\ (~Listed(a.name) /\ ~Listed(b.name)) =>
                          PlaceIn(data, a) < PlaceIn(data, b)

C21_Witness ==
    /\ pc = "sorted"
    /\ NamesOf(data) = <<"CeShiTu", "ChaoXiJianYu", "XinDiTu", "LingHaoDaBa">>
    /\ NamesOf(merged_data) = <<"LingHaoDaBa", "ChaoXiJianYu", "CeShiTu", "XinDiTu">>

====
